---- MODULE Spec2Model ----
(***************************************************************************)
(* A model of extract-text-with-image-pixel-matching.py: the glyph loader  *)
(* of extract_text, the exact matcher, the sliding-window template matcher *)
(* with get_best_image_match_above_theshold, and the clean-up of repeated  *)
(* separators.                                                             *)
(*                                                                         *)
(* An image is a record [h, w, px]: px is the sequence of its h rows, each *)
(* a sequence of w pixels.  cv2.imread decodes to 3 channels; the model's  *)
(* pixels carry the same value in all three, so a pixel is one number and  *)
(* Channels enters where the code counts elements (img.size) or sums over  *)
(* channels (TM_SQDIFF).  Texts are sequences of one-character strings.    *)
(***************************************************************************)
EXTENDS Integers, Sequences, FiniteSets, TLC

VARIABLES
    screenshot,      \* the decoded screenshot file (cv2.imread, line 167)
    char_files,      \* char_image_files: the sequence of glyph file stems
    y_start, y_end,  \* the crop range; y_end is <<>> for None, <<n>> for n
    method,          \* "exact" or "template"
    pc,              \* where the invocation is
    large_img,       \* the cropped screenshot
    possible_chars,  \* self.possible_chars: sequence of [name, img]
    max_char_size,   \* <<width, height>>
    final_text,      \* the text accumulated by the running matcher
    x, y,            \* the exact matcher's cursor; in the template matcher
                     \* the origin of the window examined last
    checking,        \* exact matcher: the coordinate checked last (line 132)
    widx,            \* how many windows window_iter has yielded so far
    best_image,      \* template matcher: index of the glyph accepted at the
                     \* window examined last, 0 for None
    steps,           \* loop iterations executed by the running matcher
    cleaned_text,    \* the result of remove_consecutive_duplicate_seperators
    exc,             \* the exception that ended the invocation, "" for none
    img_arg, treshold, text_arg, sep_arg, result
                     \* arguments and result of a function applied on its own

vars == <<screenshot, char_files, y_start, y_end, method, pc, large_img,
          possible_chars, max_char_size, final_text, x, y, checking, widx,
          best_image, steps, cleaned_text, exc,
          img_arg, treshold, text_arg, sep_arg, result>>

-----------------------------------------------------------------------------
(* Bounds of the model *)

MaxGlyphs == 3      \* glyph files given on the command line
MaxShift == 1       \* blank rows above the rendered text
MaxMargin == 3      \* blank columns right of / blank rows below the text
MaxThreshold == 9   \* thresholds tried on get_best_image_match_above_theshold
MaxLen == 5         \* tokens of a text given to the separator clean-up

(* Program constants *)

Channels == 3       \* cv2.imread decodes to BGR
ScanWidth == 3      \* max_char_size=(3, 5) passed to the exact matcher
ScanHeight == 5
Step == 1           \* sliding_window(large_img, window_size, 1)

-----------------------------------------------------------------------------
(* Helpers *)

Min(a, b) == IF a < b THEN a ELSE b
Max(a, b) == IF a > b THEN a ELSE b

RECURSIVE SumSeq(_)
SumSeq(s) == IF s = <<>> THEN 0 ELSE Head(s) + SumSeq(Tail(s))

RECURSIVE MinSeq(_)
MinSeq(s) == IF Len(s) = 1 THEN s[1] ELSE Min(s[1], MinSeq(Tail(s)))

RECURSIVE SeqsUpTo(_, _)
\* the sequences without repetition over S of length at most n
SeqsUpTo(S, n) ==
    IF n = 0 THEN {<<>>}
    ELSE LET shorter == SeqsUpTo(S, n - 1)
             longest == {t \in shorter : Len(t) = n - 1}
         IN shorter \cup UNION {{Append(s, e) : e \in S \ {s[i] : i \in 1..Len(s)}} :
                                  s \in longest}

Image(rows) == [h |-> Len(rows), w |-> Len(rows[1]), px |-> rows]

\* img.size of a numpy array of shape (h, w, 3)
Size(img) == img.h * img.w * Channels

\* numpy basic slicing image[r0:r1, c0:c1] (0-based, half open, clipped)
Slice(img, r0, r1, c0, c1) ==
    LET a == Min(Max(r0, 0), img.h)  b == Min(Max(r1, 0), img.h)
        c == Min(Max(c0, 0), img.w)  d == Min(Max(c1, 0), img.w)
        hh == Max(b - a, 0)          ww == Max(d - c, 0)
    IN [h |-> hh, w |-> ww,
        px |-> [r \in 1..hh |-> [k \in 1..ww |-> img.px[a + r][c + k]]]]

-----------------------------------------------------------------------------
(* Inputs: the glyph files and the screenshots *)

GlyphFiles == {"A", "B", "I", "F", "separator"}

\* what cv2.imread returns for the file char_<stem>.png
Bitmap(stem) ==
    CASE stem = "A" -> Image(<< <<1, 1>>, <<1, 0>>, <<1, 1>> >>)
      [] stem = "B" -> Image(<< <<1, 1>>, <<0, 1>>, <<1, 1>> >>)
      [] stem = "I" -> Image(<< <<1>>, <<1>>, <<1>> >>)
      [] stem = "F" -> Image(<< <<1, 1, 1>>, <<1, 0, 0>> >>)
      [] stem = "separator" -> Image(<< <<0>>, <<0>>, <<0>> >>)

\* the text band is as high as the highest glyph
BandHeight == CHOOSE n \in 1..9 :
    /\ \A g \in GlyphFiles : Bitmap(g).h <= n
    /\ \E g \in GlyphFiles : Bitmap(g).h = n

Texts == { <<"A", "separator", "B">>, <<"A", "B">>,
           <<"separator", "I", "separator", "separator", "A">>, <<"separator">> }

RECURSIVE TextWidth(_)
TextWidth(t) == IF t = <<>> THEN 0 ELSE Bitmap(Head(t)).w + TextWidth(Tail(t))

RECURSIVE TextPixel(_, _, _)
\* the pixel in row r, column c (1-based) of the glyphs of t set side by side
TextPixel(t, r, c) ==
    IF t = <<>> THEN 0
    ELSE LET g == Bitmap(Head(t))
         IN IF c <= g.w THEN (IF r <= g.h THEN g.px[r][c] ELSE 0)
            ELSE TextPixel(Tail(t), r, c - g.w)

\* a screenshot showing t: top blank rows above, bottom below, right blank
\* columns after it
Render(t, top, right, bottom) ==
    LET hh == top + BandHeight + bottom
        ww == TextWidth(t) + right
    IN [h |-> hh, w |-> ww,
        px |-> [r \in 1..hh |-> [c \in 1..ww |->
                  IF r > top /\ r <= top + BandHeight /\ c <= TextWidth(t)
                  THEN TextPixel(t, r - top, c) ELSE 0]]]

Screenshots ==
    {Render(t, top, right, bottom) :
        t \in Texts, top \in 0..MaxShift,
        right \in {0, MaxMargin}, bottom \in {0, MaxMargin}}

Libraries == SeqsUpTo(GlyphFiles, MaxGlyphs)

\* (y_start, y_end) pairs: no crop, first row cut, a range that leaves no rows
Crops == { <<0, <<>> >>, <<1, <<>> >>, <<0, <<0>> >> }

-----------------------------------------------------------------------------
(* extract_text: loading *)

\* the dictionary char_name_translations
char_name_translations ==
    [k \in {"slash", "separator2", "separator3", "separator"} |->
        IF k = "slash" THEN <<"/">> ELSE <<" ">>]

\* f.stem[5:] with every key of char_name_translations replaced; the stems of
\* GlyphFiles contain a key only as the whole stem
CharName(stem) ==
    IF stem \in DOMAIN char_name_translations
    THEN char_name_translations[stem] ELSE <<stem>>

\* large_img[y_start:y_end, ] with Python's slice rules
CropRows(img, ys, ye) ==
    LET norm(i) == IF i < 0 THEN Max(i + img.h, 0) ELSE Min(i, img.h)
        a == norm(ys)
        b == IF ye = <<>> THEN img.h ELSE norm(ye[1])
    IN Slice(img, a, b, 0, img.w)

\* the comparison that replaces max_char_size while the glyphs are loaded
LargerThanMax(img, mcs) == Size(img) > mcs[1] * mcs[2]

RECURSIVE MaxCharSize(_, _)
\* the loop of lines 178-185 over the files fs, starting from mcs
MaxCharSize(fs, mcs) ==
    IF fs = <<>> THEN mcs
    ELSE LET img == Bitmap(Head(fs))
         IN MaxCharSize(Tail(fs),
                IF LargerThanMax(img, mcs) THEN <<img.w, img.h>> ELSE mcs)

CharImages(fs) == [i \in 1..Len(fs) |-> [name |-> CharName(fs[i]), img |-> Bitmap(fs[i])]]

-----------------------------------------------------------------------------
(* extract_text_with_exact_matching *)

\* numpy broadcasting of two axis lengths: the common length, or -1
Broadcast(a, b) == IF a = b THEN a ELSE IF a = 1 THEN b ELSE IF b = 1 THEN a ELSE -1

\* (large_img[y : y + img.shape[0], x : x + img.shape[1]] == img).all():
\* "match", "differ", or "raise" when the shapes of the (clipped) slice and
\* of img cannot be broadcast together
RegionEquals(large, xx, yy, img) ==
    LET sl == Slice(large, yy, yy + img.h, xx, xx + img.w)
        bh == Broadcast(sl.h, img.h)
        bw == Broadcast(sl.w, img.w)
        at(im, r, c) == im.px[IF im.h = 1 THEN 1 ELSE r][IF im.w = 1 THEN 1 ELSE c]
    IN IF bh = -1 \/ bw = -1 THEN "raise"
       ELSE IF \A r \in 1..bh, c \in 1..bw : at(sl, r, c) = at(img, r, c)
            THEN "match" ELSE "differ"

\* the indexes, in library order, of the glyphs appended to matching_chars
MatchingChars(large, chars, xx, yy) ==
    SelectSeq([i \in 1..Len(chars) |-> i],
              LAMBDA i : RegionEquals(large, xx, yy, chars[i].img) = "match")

Raises(large, chars, xx, yy) ==
    \E i \in 1..Len(chars) : RegionEquals(large, xx, yy, chars[i].img) = "raise"

RECURSIVE LargestCharLastWins(_, _)
\* a max that returns the last element whose key is maximal
LargestCharLastWins(chars, matching) ==
    IF Len(matching) = 1 THEN matching[1]
    ELSE LET rest == LargestCharLastWins(chars, Tail(matching))
         IN IF Size(chars[rest].img) >= Size(chars[matching[1]].img)
            THEN rest ELSE matching[1]

RECURSIVE LargestChar(_, _)
\* max(matching_chars, key=lambda l: l[2]), l[2] being img.size: Python's max
\* returns the first element whose key is maximal
LargestChar(chars, matching) ==
    IF Len(matching) = 1 THEN matching[1]
    ELSE LET rest == LargestChar(chars, Tail(matching))
         IN IF Size(chars[rest].img) > Size(chars[matching[1]].img)
            THEN rest ELSE matching[1]

-----------------------------------------------------------------------------
(* sliding_window and extract_text_with_template_matching *)

\* len(range(0, stop, step))
RangeLen(stop, step) == IF stop <= 0 THEN 0 ELSE (stop + step - 1) \div step

\* the number of triples sliding_window(image, window_size, step) yields
WindowCount(image, window_size, step) ==
    RangeLen(image.h - window_size[2], step) * RangeLen(image.w - window_size[1], step)

\* the origin <<x, y>> of the k-th triple (k counted from 0): y is the outer
\* loop, x the inner one
WindowOrigin(image, window_size, step, k) ==
    LET nx == RangeLen(image.w - window_size[1], step)
    IN <<(k % nx) * step, (k \div nx) * step>>

\* image[y : y + window_size[1], x : x + window_size[0]]
Window(image, window_size, o) ==
    Slice(image, o[2], o[2] + window_size[2], o[1], o[1] + window_size[1])

\* the TM_SQDIFF value at offset (oy, ox) of templ inside img, summed over
\* the channels
SqDiffAt(img, templ, oy, ox) ==
    Channels * SumSeq([k \in 1..(templ.h * templ.w) |->
        LET r == ((k - 1) \div templ.w) + 1
            c == ((k - 1) % templ.w) + 1
            d == img.px[oy + r][ox + c] - templ.px[r][c]
        IN d * d])

\* cv2.minMaxLoc(cv2.matchTemplate(img, templ, cv2.TM_SQDIFF))[0].  OpenCV
\* swaps the two when img is the smaller one in both axes and fails its
\* assertion when each is smaller in one axis: -1 stands for that error
MinVal(img, templ) ==
    LET needswap == img.h < templ.h \/ img.w < templ.w
        I == IF needswap THEN templ ELSE img
        T == IF needswap THEN img ELSE templ
        ny == I.h - T.h + 1
        nx == I.w - T.w + 1
    IN IF needswap /\ ~(img.h <= templ.h /\ img.w <= templ.w) THEN -1
       ELSE MinSeq([k \in 1..(ny * nx) |->
                SqDiffAt(I, T, (k - 1) \div nx, (k - 1) % nx)])

\* the test that makes a glyph the new best one
Better(min_val, score, best_score, tr) == min_val <= tr /\ score > best_score

RECURSIVE BestFrom(_, _, _, _, _, _)
\* the loop of get_best_image_match_above_theshold from glyph i on;
\* best_char is a glyph index, 0 for None; the result is -1 when
\* cv2.matchTemplate raises
BestFrom(img, chars, tr, i, best_score, best_char) ==
    IF i > Len(chars) THEN best_char
    ELSE LET min_val == MinVal(img, chars[i].img)
             score == Size(img) - min_val
         IN IF min_val = -1 THEN -1
            ELSE IF Better(min_val, score, best_score, tr)
                 THEN BestFrom(img, chars, tr, i + 1, score, i)
                 ELSE BestFrom(img, chars, tr, i + 1, best_score, best_char)

get_best_image_match_above_theshold(img, chars, tr) ==
    BestFrom(img, chars, tr, 1, 0, 0)

\* the default treshold=10e-8: the scores of the model are whole numbers, of
\* which only 0 is at most 10e-8
DefaultTreshold == 0

-----------------------------------------------------------------------------
(* remove_consecutive_duplicate_seperators *)

\* c in sep, for a one-character c and a string sep
InSep(c, sep) == \E i \in 1..Len(sep) : sep[i] = c

\* a test that forgets the separator set
IsDuplicateOfAny(c, deduplicated, sep) == c = deduplicated[Len(deduplicated)]

\* the test of line 156
IsDuplicate(c, deduplicated, sep) ==
    InSep(c, sep) /\ c = deduplicated[Len(deduplicated)]

RECURSIVE DedupFrom(_, _, _, _)
\* the loop over text[1:], from position i (1-based) on
DedupFrom(text, sep, i, deduplicated) ==
    IF i > Len(text) THEN deduplicated
    ELSE DedupFrom(text, sep, i + 1,
             IF IsDuplicate(text[i], deduplicated, sep)
             THEN deduplicated ELSE Append(deduplicated, text[i]))

remove_consecutive_duplicate_seperators(text, sep) ==
    DedupFrom(text, sep, 2, IF text # <<>> THEN <<text[1]>> ELSE <<>>)

-----------------------------------------------------------------------------
(* The invocation extract_text(screenshot_file, char_image_files, method,   *)
(* y_start, y_end)                                                          *)

NoImage == [h |-> 0, w |-> 0, px |-> <<>>]

inputs == <<screenshot, char_files, y_start, y_end, method>>
applied == <<img_arg, treshold, text_arg, sep_arg, result>>

Init ==
    /\ screenshot \in Screenshots
    /\ char_files \in Libraries
    /\ \E crop \in Crops : y_start = crop[1] /\ y_end = crop[2]
    /\ method \in {"exact", "template"}
    /\ pc = "start"
    /\ large_img = NoImage
    /\ possible_chars = <<>>
    /\ max_char_size = <<0, 0>>
    /\ final_text = <<>>
    /\ x = 0 /\ y = 0 /\ checking = <<0, 0>> /\ widx = 0 /\ best_image = 0 /\ steps = 0
    /\ cleaned_text = <<>>
    /\ exc = ""
    /\ img_arg = NoImage /\ treshold = 0 /\ text_arg = <<>> /\ sep_arg = <<>>
    /\ result = <<>>

\* lines 166-195: crop the screenshot, import the glyphs, enter the matcher
Load ==
    /\ pc = "start"
    /\ large_img' = CropRows(screenshot, y_start, y_end)
    /\ possible_chars' = CharImages(char_files)
    /\ max_char_size' = MaxCharSize(char_files, <<0, 0>>)
    /\ pc' = IF method = "template" THEN "template" ELSE "exact"
    /\ final_text' = <<>>
    /\ x' = 0 /\ y' = 0 /\ widx' = 0
    /\ UNCHANGED <<inputs, checking, best_image, steps, cleaned_text, exc, applied>>

\* the conditions of the two while loops of the exact matcher
RowsLeft == y < large_img.h - ScanHeight
ColsLeft == x < large_img.w - ScanWidth

\* the cursor of the exact matcher when the outer loop goes to the next row
NextRowCursor == <<x, y + 1>>

\* lines 131-146: one iteration of the inner loop
ExactMatch ==
    /\ pc = "exact" /\ RowsLeft /\ ColsLeft
    /\ IF Raises(large_img, possible_chars, x, y)
       THEN /\ pc' = "error" /\ exc' = "ValueError"
            /\ UNCHANGED <<final_text, x>>
       ELSE LET matching_chars == MatchingChars(large_img, possible_chars, x, y)
            IN IF matching_chars # <<>>
               THEN LET largest_char == LargestChar(possible_chars, matching_chars)
                    IN /\ final_text' = final_text \o possible_chars[largest_char].name
                       /\ x' = x + possible_chars[largest_char].img.w
                       /\ UNCHANGED <<pc, exc>>
               ELSE /\ x' = x + 1
                    /\ UNCHANGED <<final_text, pc, exc>>
    /\ checking' = <<x, y>>
    /\ steps' = steps + 1
    /\ UNCHANGED <<inputs, large_img, possible_chars, max_char_size, y, widx,
                   best_image, cleaned_text, applied>>

\* line 147: the inner loop is over, y += 1
ExactNextRow ==
    /\ pc = "exact" /\ RowsLeft /\ ~ColsLeft
    /\ x' = NextRowCursor[1] /\ y' = NextRowCursor[2]
    /\ steps' = steps + 1
    /\ UNCHANGED <<inputs, pc, large_img, possible_chars, max_char_size,
                   final_text, checking, widx, best_image, cleaned_text, exc,
                   applied>>

\* line 148: return final_text
ExactReturn ==
    /\ pc = "exact" /\ ~RowsLeft
    /\ pc' = "returned"
    /\ UNCHANGED <<inputs, large_img, possible_chars, max_char_size, final_text,
                   x, y, checking, widx, best_image, steps, cleaned_text, exc,
                   applied>>

Windows == WindowCount(large_img, max_char_size, Step)

\* no skip-ahead at all
SkipAheadNone(consumed, w) == consumed

\* a skip-ahead that takes the window just examined back
SkipAheadStuck(consumed, w) == consumed - 1

\* the number of items window_iter has yielded once the skip-ahead of lines
\* 117-118 after a glyph of width w is over, -1 when a next() of the
\* skip-ahead finds the generator exhausted
SkipAhead(consumed, w) ==
    IF consumed + (w - 1) <= Windows THEN consumed + (w - 1) ELSE -1

\* lines 105-118: one iteration of the loop of the template matcher, the
\* generator yielding a window
TemplateWindow ==
    /\ pc = "template" /\ widx < Windows
    /\ LET origin == WindowOrigin(large_img, max_char_size, Step, widx)
           window == Window(large_img, max_char_size, origin)
           best == get_best_image_match_above_theshold(window, possible_chars,
                                                       DefaultTreshold)
       IN /\ x' = origin[1] /\ y' = origin[2]
          /\ IF best = -1
             THEN /\ pc' = "error" /\ exc' = "cv2.error"
                  /\ widx' = widx + 1
                  /\ UNCHANGED <<final_text, best_image>>
             ELSE IF best = 0
             THEN /\ widx' = widx + 1
                  /\ best_image' = 0
                  /\ UNCHANGED <<final_text, pc, exc>>
             ELSE LET after == SkipAhead(widx + 1, possible_chars[best].img.w)
                  IN /\ best_image' = best
                     /\ final_text' = final_text \o possible_chars[best].name
                     /\ IF after = -1
                        THEN pc' = "error" /\ exc' = "StopIteration" /\ widx' = Windows
                        ELSE widx' = after /\ UNCHANGED <<pc, exc>>
    /\ steps' = steps + 1
    /\ UNCHANGED <<inputs, large_img, possible_chars, max_char_size, checking,
                   cleaned_text, applied>>

\* lines 106-107, 119: the generator is exhausted, break and return
TemplateReturn ==
    /\ pc = "template" /\ widx >= Windows
    /\ pc' = "returned"
    /\ UNCHANGED <<inputs, large_img, possible_chars, max_char_size, final_text,
                   x, y, checking, widx, best_image, steps, cleaned_text, exc,
                   applied>>

\* lines 197-199: clean the text up and print it
Finish ==
    /\ pc = "returned"
    /\ cleaned_text' = remove_consecutive_duplicate_seperators(final_text, <<" ">>)
    /\ pc' = "done"
    /\ UNCHANGED <<inputs, large_img, possible_chars, max_char_size, final_text,
                   x, y, checking, widx, best_image, steps, exc, applied>>

Next ==
    \/ Load
    \/ ExactMatch
    \/ ExactNextRow
    \/ ExactReturn
    \/ TemplateWindow
    \/ TemplateReturn
    \/ Finish

Spec == Init /\ [][Next]_vars

-----------------------------------------------------------------------------
(* get_best_image_match_above_theshold applied on its own *)

idle == <<screenshot, char_files, y_start, y_end, method, large_img,
          max_char_size, final_text, x, y, checking, widx, best_image, steps,
          cleaned_text, exc>>

Idle ==
    /\ screenshot = NoImage /\ char_files = <<>> /\ y_start = 0 /\ y_end = <<>>
    /\ method = "" /\ large_img = NoImage /\ max_char_size = <<0, 0>>
    /\ final_text = <<>> /\ x = 0 /\ y = 0 /\ checking = <<0, 0>> /\ widx = 0
    /\ best_image = 0 /\ steps = 0 /\ cleaned_text = <<>> /\ exc = ""

\* the sizes <<width, height>> of the windows tried
WindowSizes == {<<Bitmap(g).w, Bitmap(g).h>> : g \in GlyphFiles} \cup {<<3, 3>>}

\* windows cut out of the band of a screenshot that shows a text
WindowArgs ==
    {Window(Render(t, 0, 0, 0), ws, <<c, 0>>) :
        t \in Texts, ws \in WindowSizes, c \in 0..2}

\* the function is given a window no glyph of the library is larger than
\* (matchTemplate's documented use)
InitBestMatch ==
    /\ Idle
    /\ \E fs \in Libraries : possible_chars = CharImages(fs)
    /\ img_arg \in {wd \in WindowArgs :
            /\ wd.w = Max(wd.w, 1)
            /\ \A i \in 1..Len(possible_chars) :
                  possible_chars[i].img.w <= wd.w /\ possible_chars[i].img.h <= wd.h}
    /\ treshold \in 0..MaxThreshold
    /\ text_arg = <<>> /\ sep_arg = <<>>
    /\ result = 0
    /\ pc = "call"

ApplyBestMatch ==
    /\ pc = "call"
    /\ result' = get_best_image_match_above_theshold(img_arg, possible_chars, treshold)
    /\ pc' = "applied"
    /\ UNCHANGED <<idle, possible_chars, img_arg, treshold, text_arg, sep_arg>>

NextBestMatch == ApplyBestMatch

SpecBestMatch == InitBestMatch /\ [][NextBestMatch]_vars

-----------------------------------------------------------------------------
(* remove_consecutive_duplicate_seperators applied on its own *)

Tokens == {"a", "b", " ", ","}

RECURSIVE TextsUpTo(_)
TextsUpTo(n) ==
    IF n = 0 THEN {<<>>}
    ELSE LET shorter == TextsUpTo(n - 1)
         IN shorter \cup {Append(t, c) : t \in {u \in shorter : Len(u) = n - 1},
                                          c \in Tokens}

Separators == { <<>>, <<" ">>, <<",">>, <<",", " ">> }

InitDedup ==
    /\ Idle
    /\ possible_chars = <<>>
    /\ img_arg = NoImage /\ treshold = 0
    /\ text_arg \in TextsUpTo(MaxLen)
    /\ sep_arg \in Separators
    /\ result = <<>>
    /\ pc = "call"

ApplyDedup ==
    /\ pc = "call"
    /\ result' = remove_consecutive_duplicate_seperators(text_arg, sep_arg)
    /\ pc' = "applied"
    /\ UNCHANGED <<idle, possible_chars, img_arg, treshold, text_arg, sep_arg>>

NextDedup == ApplyDedup

SpecDedup == InitDedup /\ [][NextDedup]_vars

-----------------------------------------------------------------------------
(* Properties *)

\* glyph i of the library is pixel-identical to the region of its own
\* dimensions whose top left corner is column cx, row cy of the screenshot
PixelIdentical(i, cx, cy) ==
    LET g == possible_chars[i].img
    IN /\ cy + g.h <= large_img.h
       /\ cx + g.w <= large_img.w
       /\ \A r \in 1..g.h, c \in 1..g.w : large_img.px[cy + r][cx + c] = g.px[r][c]

Identical(cx, cy) == {i \in 1..Len(possible_chars) : PixelIdentical(i, cx, cy)}

Area(i) == possible_chars[i].img.h * possible_chars[i].img.w

\* the glyph the claim selects among a non-empty set M of matching glyphs
Selected(M) ==
    CHOOSE i \in M : /\ \A j \in M : Area(j) <= Area(i)
                     /\ \A j \in M : Area(j) = Area(i) => i <= j

\* C1: whenever the exact matcher's cursor moves to a new row y, its x is
\* reset to the row's starting value 0, so every row is scanned from x = 0.
C1_RowReset ==
    [][(pc = "exact" /\ y' # y) => x' = 0]_vars

\* C2: at every position the exact matcher tests, the label appended is that
\* of the largest-area glyph among the pixel-identical ones, the earliest in
\* library order among equal areas, and x advances by that glyph's width;
\* with no identical glyph nothing is appended and x advances by 1.
C2_LargestMatch ==
    [][(pc = "exact" /\ RowsLeft /\ ColsLeft) =>
         LET M == Identical(x, y)
         IN IF M = {}
            THEN final_text' = final_text /\ x' = x + 1 /\ y' = y
            ELSE /\ final_text' = final_text \o possible_chars[Selected(M)].name
                 /\ x' = x + possible_chars[Selected(M)].img.w
                 /\ y' = y]_vars

\* a position has been tested at which a smaller glyph and two glyphs of the
\* same largest area were identical, and the earlier of the two was appended
C2_Witness ==
    /\ pc = "exact" /\ steps > 0
    /\ LET M == Identical(checking[1], checking[2])
       IN /\ \E i, j, k \in M : i < j /\ Area(i) = Area(j) /\ Area(k) < Area(i)
                                  /\ Selected(M) = i
                                  /\ possible_chars[i].name # possible_chars[j].name
                                  /\ possible_chars[i].img.w # possible_chars[j].img.w
          /\ x = checking[1] + possible_chars[Selected(M)].img.w
          /\ final_text # <<>>
          /\ <<final_text[Len(final_text)]>> = possible_chars[Selected(M)].name

\* C3: every step of either matcher strictly increases its scan position
\* (the cursor of the exact matcher, the window index of the template
\* matcher), and a matcher makes at most screenshotWidth x screenshotHeight
\* steps.
C3_Progress ==
    /\ [](steps <= large_img.w * large_img.h)
    /\ [][/\ (pc = "exact" /\ RowsLeft /\ ColsLeft) => (x' > x /\ y' = y)
          /\ (pc = "exact" /\ RowsLeft /\ ~ColsLeft) => y' > y
          /\ (pc = "template" /\ widx < Windows) => widx' > widx]_vars

\* a matcher has run to its end, after steps that appended a glyph and steps
\* that did not
C3_Witness ==
    /\ pc = "returned"
    /\ steps > 2
    /\ final_text # <<>>
    /\ steps > Len(final_text)

\* C4: get_best_image_match_above_theshold returns a glyph iff at least one
\* glyph has minVal <= threshold, for every threshold >= 0; the glyph
\* returned has the smallest minVal among the acceptable ones and is the
\* earliest in library order among those of the same score.
C4_BestMatch ==
    (pc = "applied" /\ result # -1) =>
        LET mv(i) == MinVal(img_arg, possible_chars[i].img)
            acceptable == {i \in 1..Len(possible_chars) : mv(i) <= treshold}
        IN /\ result # 0 <=> acceptable # {}
           /\ result # 0 =>
                /\ result \in acceptable
                /\ \A j \in acceptable :
                      mv(result) <= mv(j) /\ (mv(j) = mv(result) => result <= j)

RECURSIVE Emitted(_, _, _)
\* the tokens emitted for the first n tokens of text: a token is dropped iff
\* it is a separator identical to the token emitted last
Emitted(text, sep, n) ==
    IF n = 0 THEN <<>>
    ELSE LET before == Emitted(text, sep, n - 1)
             c == text[n]
         IN IF /\ c \in {sep[i] : i \in 1..Len(sep)}
               /\ before # <<>>
               /\ c = before[Len(before)]
            THEN before ELSE Append(before, c)

\* C5: remove_consecutive_duplicate_seperators drops a token iff it belongs
\* to the separator set and is identical to the token emitted immediately
\* before it; all other tokens are kept in order, and the empty text gives
\* the empty text.
C5_Dedup ==
    pc = "applied" => result = Emitted(text_arg, sep_arg, Len(text_arg))

\* the example a, sp, sp, sp, b has been collapsed to a, sp, b
C5_Witness ==
    /\ pc = "applied"
    /\ text_arg = <<"a", " ", " ", " ", "b">>
    /\ sep_arg = <<" ">>
    /\ result = <<"a", " ", "b">>

\* C6: with the library A, B, SP and the 5 x 3 screenshot A SP B, the exact
\* matcher (scan window 3 x 5) returns A, SP, B, and the clean-up leaves
\* that unchanged.
C6_EndToEnd ==
    (/\ pc = "done"
     /\ method = "exact"
     /\ screenshot = Render(<<"A", "separator", "B">>, 0, 0, 0)
     /\ y_start = 0 /\ y_end = <<>>
     /\ Len(char_files) = 3
     /\ {char_files[i] : i \in 1..3} = {"A", "B", "separator"})
    => /\ final_text = <<"A", " ", "B">>
       /\ cleaned_text = <<"A", " ", "B">>

\* C7: an invocation whose crop range leaves the screenshot with zero rows,
\* or one of whose glyphs has zero width or height, ends in an error and
\* returns no text.
C7_DimensionErrorsRejected ==
    pc \in {"returned", "done"} =>
        /\ large_img.h > 0
        /\ \A i \in 1..Len(possible_chars) :
              possible_chars[i].img.h > 0 /\ possible_chars[i].img.w > 0

C8_WitnessNextRow ==
    /\ pc = "template" /\ steps > 0 /\ widx < Windows
    /\ best_image # 0
    /\ WindowOrigin(large_img, max_char_size, Step, widx)[2] = y + 1
    /\ WindowOrigin(large_img, max_char_size, Step, widx)[1] > 0

\* C9: for a non-empty library the maximum glyph size computed at load is
\* (the largest width, the largest height) over the glyphs, so every glyph
\* fits inside the template matcher's window.
C9_MaxGlyphSize ==
    (pc # "start" /\ possible_chars # <<>>) =>
        /\ \A i \in 1..Len(possible_chars) :
              /\ possible_chars[i].img.w <= max_char_size[1]
              /\ possible_chars[i].img.h <= max_char_size[2]
        /\ \E i \in 1..Len(possible_chars) : possible_chars[i].img.w = max_char_size[1]
        /\ \E i \in 1..Len(possible_chars) : possible_chars[i].img.h = max_char_size[2]

\* C10: the template matcher returns normally with the labels accepted so
\* far; a skip-ahead that finds fewer than w - 1 windows left ends the scan
\* cleanly instead of aborting the invocation.
C10_SkipAheadReturns ==
    method = "template" => exc # "StopIteration"

====
